---- MODULE Spec2Model ----
(***************************************************************************)
(* AddLocalShapeDescriptor (mala/gunpowder/add_local_shape_descriptor.py)  *)
(* as a state machine: one node instance with its fields, the request it   *)
(* is given, the request it passes upstream, and the batch it works on.    *)
(*                                                                         *)
(* Conventions of the model                                                *)
(*  - a coordinate / shape / sigma is a sequence, one entry per axis;      *)
(*  - a Roi is [offset, shape] in world units, as gunpowder's Roi;         *)
(*  - a float32 value is a fixed-point integer: the value times Scale,     *)
(*    rounded down (Scale = 1000, so the code's floor 1e-3 is 1);          *)
(*  - an array of shape (10, z, y, x) is a function from the spatial index *)
(*    <<z, y, x>> to the 10-tuple of its channels: channel c (0-based) of  *)
(*    numpy's array at v is arr[v][c + 1];                                 *)
(*  - sigma and the voxel size are positive.                               *)
(***************************************************************************)
EXTENDS Integers, Sequences, FiniteSets, TLC

\* ------------------------------------------------------------------ bounds
\* labels of a segmentation are 0..MaxLabel, 0 being background
MaxLabel == 2
\* downsample factors are 1..MaxDownsample
MaxDownsample == 2
\* the integer radii of the sphere kernels examined on their own are 1..MaxRadius
MaxRadius == 2

\* --------------------------------------------------------------- constants
\* fixed-point resolution: 1/Scale is the numerical-stability floor 1e-3
Scale == 1000
\* number of descriptor channels
NumChannels == 10

Labels == 0..MaxLabel

\* the three array keys of the node
SEG == "segmentation"
DESC == "descriptor"
MASK == "mask"
NONE == "None"

\* A value that is used more than once is bound by a quantifier over a
\* singleton set and taken out again with Only, so that it is evaluated once:
\* Only({f(x) : x \in {e}}) = f(e).
Only(S) == CHOOSE x \in S : TRUE
\* tuple(a): a sequence of length 2, 3 or 4 written out
AsTuple(a) ==
    Only({IF Len(x) = 2 THEN <<x[1], x[2]>>
          ELSE IF Len(x) = 3 THEN <<x[1], x[2], x[3]>>
          ELSE <<x[1], x[2], x[3], x[4]>> : x \in {a}})

\* ----------------------------------------------------------- vector helpers
Min(a, b) == Only({IF x <= y THEN x ELSE y : x \in {a}, y \in {b}})
Max(a, b) == Only({IF x >= y THEN x ELSE y : x \in {a}, y \in {b}})
VAdd(a, b) == [i \in 1..Len(a) |-> a[i] + b[i]]
VSub(a, b) == [i \in 1..Len(a) |-> a[i] - b[i]]
VMul(a, b) == [i \in 1..Len(a) |-> a[i] * b[i]]
VDiv(a, b) == [i \in 1..Len(a) |-> a[i] \div b[i]]
VScale(a, k) == [i \in 1..Len(a) |-> a[i] * k]
VDivS(a, k) == [i \in 1..Len(a) |-> a[i] \div k]
\* ceil(a / k), the length of a[::k]
CeilDiv(a, k) == (a + k - 1) \div k

\* all indices of an array of the given (2- or 3-dimensional) shape
Box(shape) ==
    IF Len(shape) = 3
    THEN (0..(shape[1] - 1)) \X (0..(shape[2] - 1)) \X (0..(shape[3] - 1))
    ELSE (0..(shape[1] - 1)) \X (0..(shape[2] - 1))

\* whether u indexes an array of the given shape
InBox(u, shape) == \A i \in 1..Len(shape) : 0 <= u[i] /\ u[i] < shape[i]

\* ------------------------------------------------------------ gunpowder Roi
RoiGrow(roi, neg, pos) ==
    [offset |-> VSub(roi.offset, neg), shape |-> VAdd(VAdd(roi.shape, neg), pos)]
RoiEnd(roi) == VAdd(roi.offset, roi.shape)
RoiUnion(a, b) ==
    LET off == [i \in 1..Len(a.offset) |-> Min(a.offset[i], b.offset[i])]
        end == [i \in 1..Len(a.offset) |-> Max(RoiEnd(a)[i], RoiEnd(b)[i])]
    IN [offset |-> off, shape |-> VSub(end, off)]
RoiIntersect(a, b) ==
    LET off == [i \in 1..Len(a.offset) |-> Max(a.offset[i], b.offset[i])]
        end == [i \in 1..Len(a.offset) |-> Min(RoiEnd(a)[i], RoiEnd(b)[i])]
    IN [offset |-> off, shape |-> [i \in 1..Len(off) |-> Max(end[i] - off[i], 0)]]
RoiShift(roi, by) == [offset |-> VSub(roi.offset, by), shape |-> roi.shape]
RoiDivV(roi, v) == [offset |-> VDiv(roi.offset, v), shape |-> VDiv(roi.shape, v)]
RoiDivS(roi, k) == [offset |-> VDivS(roi.offset, k), shape |-> VDivS(roi.shape, k)]
RoiContains(a, b) ==
    \A i \in 1..Len(a.offset) :
        a.offset[i] <= b.offset[i] /\ RoiEnd(b)[i] <= RoiEnd(a)[i]

\* --------------------------------------------------- fixed-point arithmetic
\* a * b / Scale and a * Scale / b, rounded down, without leaving 32 bits
FMul(a, b) ==
    Only({(x \div Scale) * y + ((x % Scale) * y) \div Scale : x \in {a}, y \in {b}})
FDiv(a, b) ==
    Only({(x \div y) * Scale + ((x % y) * Scale) \div y : x \in {a}, y \in {b}})
RECURSIVE SqrtSearch(_, _, _)
SqrtSearch(n, lo, hi) ==
    IF lo >= hi THEN lo
    ELSE Only({IF mid * mid <= n THEN SqrtSearch(n, mid, hi)
               ELSE SqrtSearch(n, lo, mid - 1) : mid \in {(lo + hi + 1) \div 2}})
\* floor(sqrt(n)) for 0 <= n < 2^31
ISqrt(n) == Only({SqrtSearch(x, 0, Min(x, 46340)) : x \in {n}})
\* np.sqrt(a * b) of two fixed-point values, as a fixed-point value
FSqrtProd(a, b) == ISqrt(a * b)
\* 1000 * exp(-q / 2) for an integer q >= 0, rounded
ExpTable == <<1000, 607, 368, 223, 135, 82, 50, 30, 18, 11, 7, 4, 2, 2, 1, 1>>
ExpNegHalf(q) == IF q < Len(ExpTable) THEN ExpTable[q + 1] ELSE 0

RECURSIVE SumTo(_, _, _)
SumTo(F, lo, hi) == IF lo > hi THEN 0 ELSE F[lo] + SumTo(F, lo + 1, hi)
\* the sum of F over all <<a, b, c>> with 0 <= a, b, c and a < n[1], b < n[2], c < n[3]
Sum3(F, n) ==
    SumTo([a \in 0..(n[1] - 1) |->
            SumTo([b \in 0..(n[2] - 1) |->
                    SumTo([c \in 0..(n[3] - 1) |-> F[<<a, b, c>>]], 0, n[3] - 1)],
                  0, n[2] - 1)],
          0, n[1] - 1)

\* ------------------------------------------------------------- the kernels
\* A sigma in voxels is the float sigma / voxel size: the rational [n, d].
Ratio(n, d) == [n |-> n, d |-> d]
RatioEq(a, b) == a.n * b.d = b.n * a.d

\* np.arange(-radius, radius): its length, and 2-d's multiple of its k-th value
ArangeLen(radius) == CeilDiv(2 * radius.n, radius.d)
ArangeNum(radius, k) == k * radius.d - radius.n

\* __make_sphere: the (L, L, L) array of 0/1, by kernel index
MakeSphere(radius) ==
    LET L == ArangeLen(radius)
        r2(k) == ArangeNum(radius, k) * ArangeNum(radius, k)
    IN [k \in Box(<<L, L, L>>) |->
            IF r2(k[1]) + r2(k[2]) + r2(k[3]) <= radius.n * radius.n THEN 1 ELSE 0]

\* scipy.ndimage.convolve(array, weights, mode='constant', cval=0.0) at index v:
\* weights[k] multiplies array[v - (k - L div 2)] (for an even length the
\* origin is moved by one, so that the kernel's centre is index L div 2)
ConvolveAt(array, shape, weights, L, v) ==
    LET c == L \div 2
        term(k) ==
            LET u == <<v[1] - k[1] + c, v[2] - k[2] + c, v[3] - k[3] + c>>
            IN IF weights[k] = 0 \/ ~InBox(u, shape) THEN 0
               ELSE weights[k] * array[u]
    IN Sum3([k \in Box(<<L, L, L>>) |-> term(k)], <<L, L, L>>)

\* scipy's _gaussian_kernel1d with truncate = 3.0: the radius lw and the
\* normalised weights of the offsets -lw..lw (index x + lw + 1)
GaussianRadius(s) == (6 * s.n + s.d) \div (2 * s.d)
GaussianKernel1d(s) ==
    LET e(x) == ExpNegHalf((x * x * s.d * s.d) \div (s.n * s.n))
    IN Only({[x \in 1..(2 * lw + 1) |-> (e(x - lw - 1) * Scale) \div total] :
                lw \in {GaussianRadius(s)},
                total \in {SumTo([x \in 0..(2 * GaussianRadius(s)) |->
                                    e(x - GaussianRadius(s))],
                                 0, 2 * GaussianRadius(s))}})

\* scipy.ndimage.gaussian_filter(array, sigma, mode='constant', cval=0.0,
\* truncate=3.0) at index v: the three 1-d correlations, one per axis
GaussianFilterAt(array, shape, sigma, v) ==
    LET sum(w1, w2, w3, l) ==
            Sum3([k \in Box(<<2 * l[1] + 1, 2 * l[2] + 1, 2 * l[3] + 1>>) |->
                    LET u == <<v[1] + k[1] - l[1], v[2] + k[2] - l[2],
                               v[3] + k[3] - l[3]>>
                    IN IF ~InBox(u, shape) THEN 0
                       ELSE FMul(FMul(FMul(w1[k[1] + 1], w2[k[2] + 1]), w3[k[3] + 1]),
                                 array[u])],
                 <<2 * l[1] + 1, 2 * l[2] + 1, 2 * l[3] + 1>>)
    IN Only({sum(w1, w2, w3, l) :
                w1 \in {GaussianKernel1d(sigma[1])},
                w2 \in {GaussianKernel1d(sigma[2])},
                w3 \in {GaussianKernel1d(sigma[3])},
                l \in {<<GaussianRadius(sigma[1]), GaussianRadius(sigma[2]),
                         GaussianRadius(sigma[3])>>}})

\* a faulty variant: the loop of the assertion stops one axis short
IsotropicSigmaShort(sigma) == \A d \in 1..(Len(sigma) - 1) : RatioEq(sigma[1], sigma[d])
\* the assertion of __aggregate in sphere mode: radius == sigma[d] for all d
IsotropicSigma(sigma) == \A d \in 1..Len(sigma) : RatioEq(sigma[1], sigma[d])

\* the indices of roi.get_bounding_box() in a 3-dimensional array
RoiBox(roi) ==
    {<<roi.offset[1] + i[1], roi.offset[2] + i[2], roi.offset[3] + i[3]>> :
        i \in Box(roi.shape)}

\* __aggregate at one index v of its result before [roi_slices], where mode is
\* 'gaussian' or 'sphere' and, in sphere mode, sigma has passed the assertion
AggregateAt(array, shape, sigma, m, v) ==
    IF m = "gaussian"
    THEN GaussianFilterAt(array, shape, sigma, v)
    ELSE ConvolveAt(array, shape, MakeSphere(sigma[1]), ArangeLen(sigma[1]), v)

\* ------------------------------------------------------ the coordinate grid
\* np.arange(0, stop, step) for a positive step
Arange(stop, step) == [i \in 1..CeilDiv(stop, step) |-> (i - 1) * step]
\* a faulty variant: np.meshgrid with its default indexing='xy', which swaps the first two axes
MeshGridXY(sub_shape, sub_voxel_size) ==
    LET a1 == Arange(sub_shape[1] * sub_voxel_size[1], sub_voxel_size[1])
        a2 == Arange(sub_shape[2] * sub_voxel_size[2], sub_voxel_size[2])
        a3 == Arange(sub_shape[3] * sub_voxel_size[3], sub_voxel_size[3])
    IN [v \in Box(<<Len(a2), Len(a1), Len(a3)>>) |->
            <<a1[v[2] + 1] * Scale, a2[v[1] + 1] * Scale, a3[v[3] + 1] * Scale>>]
\* np.meshgrid(arange, arange, arange, indexing='ij') as float32: the grid of
\* the world coordinates of an array of shape sub_shape[0..2]
MeshGrid(sub_shape, sub_voxel_size) ==
    LET a1 == Arange(sub_shape[1] * sub_voxel_size[1], sub_voxel_size[1])
        a2 == Arange(sub_shape[2] * sub_voxel_size[2], sub_voxel_size[2])
        a3 == Arange(sub_shape[3] * sub_voxel_size[3], sub_voxel_size[3])
    IN [v \in Box(<<Len(a1), Len(a2), Len(a3)>>) |->
            <<a1[v[1] + 1] * Scale, a2[v[2] + 1] * Scale, a3[v[3] + 1] * Scale>>]

\* the key of self.coords
CoordsKey(sub_shape, sub_voxel_size) == <<sub_shape, sub_voxel_size>>

\* lines 164-174: the cache after the lookup of a key
CoordsAfter(cache, sub_shape, sub_voxel_size) ==
    LET key == CoordsKey(sub_shape, sub_voxel_size)
    IN IF key \notin DOMAIN cache
       THEN [k \in DOMAIN cache \cup {key} |->
                IF k = key THEN MeshGrid(sub_shape, sub_voxel_size) ELSE cache[k]]
       ELSE cache

\* ------------------------------------------------------------ the statistics
\* mask[::df, ::df, ::df] of mask = (segmentation == label).astype(float32)
SubMaskAt(data, label, df, u) ==
    IF data[<<u[1] * df, u[2] * df, u[3] * df>>] = label THEN Scale ELSE 0

\* numpy's broadcasting of two shapes of equal length that are compatible
Compatible(a, b) == \A i \in 1..Len(a) : a[i] = b[i] \/ a[i] = 1 \/ b[i] = 1
BroadcastShape(a, b) ==
    AsTuple([i \in 1..Len(a) |-> IF a[i] = 1 THEN b[i] ELSE IF b[i] = 1 THEN a[i]
                                 ELSE Min(a[i], b[i])])
\* the index into an array of the given shape that index u of a broadcast reads
BroadcastIndex(u, shape) ==
    <<IF shape[1] = 1 THEN 0 ELSE u[1], IF shape[2] = 1 THEN 0 ELSE u[2],
      IF shape[3] = 1 THEN 0 ELSE u[3]>>

\* lines 249-293 at one index, from the values __aggregate has there: c for
\* the mask, s for the three masked coordinates, q for their products (zz,
\* yy, xx, zy, zx, yx), and from the coordinates g of the index; followed by
\* the concatenation of line 195
StatsAt(c, s, q, g, sig) ==
    LET count == IF c = 0 THEN Scale ELSE c
        mean(d) == FDiv(s[d], count)
        cov(k, i, j) == FDiv(q[k], count) - FMul(mean(i), mean(j))
        var(d) == Max(cov(d, d, d), 1)
        pearson(k, i, j) == FDiv(cov(k, i, j), FSqrtProd(var(i), var(j)))
    IN << mean(1) - g[1], mean(2) - g[2], mean(3) - g[3],
          var(1) \div (sig[1] * sig[1]), var(2) \div (sig[2] * sig[2]),
          var(3) \div (sig[3] * sig[3]),
          pearson(4, 1, 2), pearson(5, 1, 3), pearson(6, 2, 3),
          count >>

\* __get_stats at one index v of the sub-sampled array: the 10 channels of
\* sub_descriptor at v, where grid is the coordinate grid, of shape
\* grid_shape, and mask_shape the shape of the sub-sampled mask
SubDescriptorAt(data, label, df, grid, grid_shape, mask_shape, sigma_voxel, m, sig, v) ==
    LET mask(u) == SubMaskAt(data, label, df, BroadcastIndex(u, mask_shape))
        mc(d, u) == FMul(grid[BroadcastIndex(u, grid_shape)][d], mask(u))
        stats(shape, w) ==
            LET aggregate(F) == AggregateAt(F, shape, sigma_voxel, m, w)
                coord(d) == aggregate([u \in Box(shape) |-> mc(d, u)])
                outer(i, j) == aggregate([u \in Box(shape) |-> FMul(mc(i, u), mc(j, u))])
            IN Only({StatsAt(c, s, q, g, sig) :
                        c \in {AggregateAt([u \in Box(mask_shape) |->
                                                SubMaskAt(data, label, df, u)],
                                            mask_shape, sigma_voxel, m, w)},
                        s \in {<<coord(1), coord(2), coord(3)>>},
                        q \in {<<outer(1, 1), outer(2, 2), outer(3, 3),
                                  outer(1, 2), outer(1, 3), outer(2, 3)>>},
                        g \in {grid[w]}})
    IN Only({stats(shape, w) :
                shape \in {BroadcastShape(grid_shape, mask_shape)}, w \in {v}})

\* ------------------------------------------------------------- resampling
\* __upsample of an array of the given spatial shape by the factor f: the
\* strided view (s1, f, s2, f, s3, f) reshaped to (s1*f, s2*f, s3*f)
Upsample(array, shape, f) ==
    [i \in Box(VScale(shape, f)) |-> array[<<i[1] \div f, i[2] \div f, i[3] \div f>>]]

\* ------------------------------------------------------------ normalization
Zeros == [c \in 1..NumChannels |-> 0]
\* max_distance of lines 214-225, as fixed-point values
MaxDistance(m, sig) ==
    IF m = "gaussian" THEN [d \in 1..Len(sig) |-> sig[d] * Scale]
    ELSE [d \in 1..Len(sig) |-> (sig[d] * Scale) \div 2]
\* line 228, at one voxel
NormalizeOffsets(d, m, sig) ==
    [c \in 1..NumChannels |->
        IF c \in {1, 2, 3}
        THEN FDiv(d[c], MaxDistance(m, sig)[c]) \div 2 + Scale \div 2
        ELSE d[c]]
\* line 230, at one voxel
NormalizePearson(d) ==
    [c \in 1..NumChannels |->
        IF c \in {7, 8, 9} THEN d[c] \div 2 + Scale \div 2 ELSE d[c]]
\* a faulty variant: the reset names the first six channels
ResetBackgroundFirstSix(d, label) ==
    [c \in 1..NumChannels |->
        IF c \in {1, 2, 3, 4, 5, 6} THEN d[c] * (IF label # 0 THEN 1 ELSE 0)
        ELSE d[c]]
\* line 232, at one voxel with the given label
ResetBackground(d, label) ==
    [c \in 1..NumChannels |->
        IF c \in {1, 2, 3, 7, 8, 9} THEN d[c] * (IF label # 0 THEN 1 ELSE 0)
        ELSE d[c]]
\* a faulty variant: only the lower bound is clipped
ClipBelow(d) == [c \in 1..NumChannels |-> Max(d[c], 0)]
\* line 235, at one voxel
Clip(d) == [c \in 1..NumChannels |-> Min(Max(d[c], 0), Scale)]
\* lines 211-235, at one voxel
Normalize(d, label, m, sig) ==
    Only({Clip(ResetBackground(NormalizePearson(NormalizeOffsets(x, m, sig)), l)) :
            x \in {d}, l \in {label}})

\* ---------------------------------------------------------------- arrays
\* An Array is [roi, data, channels]: roi in world units, data a function of
\* the spatial index, channels the number of leading axes of length 1 the
\* data has before its spatial axes (0: none, 1: one channel axis).
ArrayVoxelShape(arr, vs) == VDiv(arr.roi.shape, vs)
\* data.shape
ArrayShape(arr, vs) ==
    IF arr.channels = 1 THEN <<1>> \o ArrayVoxelShape(arr, vs)
    ELSE ArrayVoxelShape(arr, vs)
\* Array.crop(roi)
Crop(arr, roi, vs) ==
    LET by == VDiv(VSub(roi.offset, arr.roi.offset), vs)
    IN [roi |-> roi,
        data |-> [i \in Box(VDiv(roi.shape, vs)) |->
                    arr.data[<<i[1] + by[1], i[2] + by[2], i[3] + by[3]>>]],
        channels |-> arr.channels]

\* the length of slice(lo, lo + n) of an axis of length len
SliceLen(lo, n, len) == Max(Min(lo + n, len) - Min(Max(lo, 0), len), 0)
\* the indices slice(lo, lo + n) selects of an axis of length len
SliceIdx(lo, n, len) == {k \in 0..(len - 1) : lo <= k /\ k < lo + n}

\* the values of segmentation[roi_slices]: the slices index the first three axes
SlicedLabels(arr, vs, roi) ==
    LET sh == ArrayVoxelShape(arr, vs)
    IN IF arr.channels = 0
       THEN {arr.data[v] : v \in {u \in RoiBox(roi) : InBox(u, sh)}}
       ELSE IF 0 \in SliceIdx(roi.offset[1], roi.shape[1], 1)
            THEN {arr.data[<<z, y, x>>] :
                    z \in SliceIdx(roi.offset[2], roi.shape[2], sh[1]),
                    y \in SliceIdx(roi.offset[3], roi.shape[3], sh[2]),
                    x \in 0..(sh[3] - 1)}
            ELSE {}
\* the shape of segmentation[roi_slices]
SlicedShape(arr, vs, roi) ==
    LET sh == ArrayShape(arr, vs)
    IN [i \in 1..Len(sh) |->
            IF i <= 3 THEN SliceLen(roi.offset[i], roi.shape[i], sh[i]) ELSE sh[i]]

\* ------------------------------------------------------- __get_descriptors
RECURSIVE SumLabels(_, _)
\* the sum over the labels, in np.unique's order, of the 10-tuples F(label)
SumLabels(F, labels) ==
    IF labels = {} THEN Zeros
    ELSE Only({Only({[c \in 1..NumChannels |-> this[c] + rest[c]] :
                        this \in {F[l]}, rest \in {SumLabels(F, labels \ {l})}}) :
                 l \in {CHOOSE x \in labels : \A y \in labels : x <= y}})

\* __get_descriptors(segmentation, roi) of a node with the given fields:
\* [error, coords, accumulated, foreground], where coords is self.coords
\* afterwards, accumulated is descriptors after the loop over the labels
\* (line 209) and foreground is segmentation[roi_slices] as line 232 uses it
GetDescriptors(arr, roi, vs, sig, m, df, cache) ==
    LET result(seg_shape, sub_shape, sub_roi, sub_voxel_size, sub_sigma_voxel,
               cache2, labels, mask_shape, sliced) ==
            LET grid_shape == <<sub_shape[1], sub_shape[2], sub_shape[3]>>
                \* line 242: coords*mask, of shapes (3,) + grid_shape and mask_shape
                stats_ok ==
                    IF arr.channels = 0 THEN Compatible(grid_shape, mask_shape)
                    ELSE Compatible(<<3>> \o grid_shape, mask_shape)
                \* line 208: descriptor*mask[roi_slices] into descriptors
                upsampled_shape == VScale(sub_roi.shape, df)
                failed(e) == [error |-> e, coords |-> cache2, accumulated |-> <<>>,
                              foreground |-> <<>>]
                sub_descriptor(label, grid) ==
                    [j \in Box(sub_roi.shape) |->
                        SubDescriptorAt(arr.data, label, df, grid, grid_shape,
                                        mask_shape, sub_sigma_voxel, m, sig,
                                        <<sub_roi.offset[1] + j[1],
                                          sub_roi.offset[2] + j[2],
                                          sub_roi.offset[3] + j[3]>>)]
                label_at(i) ==
                    arr.data[<<roi.offset[1] + i[1], roi.offset[2] + i[2],
                               roi.offset[3] + i[3]>>]
                accumulated(grid) ==
                    [i \in Box(roi.shape) |->
                        SumLabels([l \in labels |->
                                    IF label_at(i) = l
                                    THEN Upsample(sub_descriptor(l, grid),
                                                  sub_roi.shape, df)[i]
                                    ELSE Zeros],
                                  labels)]
                \* segmentation[roi_slices] != 0 of line 232, broadcast to (z, y, x)
                foreground(i) ==
                    IF arr.channels = 0 THEN label_at(i)
                    ELSE LET b == BroadcastIndex(i, <<sliced[2], sliced[3], sliced[4]>>)
                         IN arr.data[<<b[1] + Max(roi.offset[2], 0),
                                       b[2] + Max(roi.offset[3], 0), b[3]>>]
                reset_ok ==
                    IF arr.channels = 0 THEN TRUE
                    ELSE /\ sliced[1] = 1
                         /\ \A a \in 1..3 :
                                sliced[a + 1] = 1 \/ sliced[a + 1] = roi.shape[a]
            IN IF labels # {} /\ ~stats_ok THEN failed("ValueError at line 242")
               ELSE IF labels # {} /\ m = "sphere" /\ ~IsotropicSigma(sub_sigma_voxel)
               THEN failed("AssertionError: only isotropic sigma is allowed")
               ELSE IF labels # {} /\ arr.channels # 0
               THEN failed("RuntimeError at line 247")
               ELSE IF labels # {} /\ upsampled_shape # roi.shape
               THEN failed("ValueError at line 208")
               ELSE IF ~reset_ok THEN failed("ValueError at line 232")
               ELSE [error |-> "none", coords |-> cache2,
                     accumulated |->
                        Only({accumulated(grid) :
                                grid \in {cache2[CoordsKey(sub_shape, sub_voxel_size)]}}),
                     foreground |-> [i \in Box(roi.shape) |-> foreground(i)]]
        with(seg_shape, sub_shape, sub_voxel_size) ==
            Only({result(seg_shape, sub_shape, sub_roi, sub_voxel_size,
                         sub_sigma_voxel, cache2, labels, mask_shape, sliced) :
                    sub_roi \in {[offset |-> AsTuple(VDivS(roi.offset, df)),
                                  shape |-> AsTuple(VDivS(roi.shape, df))]},
                    sub_sigma_voxel \in
                        {AsTuple([i \in 1..Min(Len(sig), Len(sub_voxel_size)) |->
                                    Ratio(sig[i], sub_voxel_size[i])])},
                    cache2 \in {CoordsAfter(cache, sub_shape, sub_voxel_size)},
                    labels \in {SlicedLabels(arr, vs, roi) \ {0}},
                    \* mask[::df, ::df, ::df]
                    mask_shape \in
                        {AsTuple([i \in 1..Len(seg_shape) |-> CeilDiv(seg_shape[i], df)])},
                    sliced \in {AsTuple(SlicedShape(arr, vs, roi))}})
    IN Only({with(seg_shape, sub_shape, sub_voxel_size) :
                seg_shape \in {AsTuple(ArrayShape(arr, vs))},
                sub_shape \in {AsTuple(VDivS(ArrayShape(arr, vs), df))},
                sub_voxel_size \in {AsTuple(VScale(vs, df))}})

\* lines 211-237: the descriptors returned, from their value at line 209
NormalizeAll(acc, foreground, m, sig) ==
    [i \in DOMAIN acc |-> Normalize(acc[i], foreground[i], m, sig)]

\* ------------------------------------------------------------------- state
VARIABLES
    mode,             \* self.mode
    sigma,            \* self.sigma, a tuple
    downsample,       \* self.downsample
    mask,             \* self.mask: MASK, or NONE when no mask key is configured
    voxel_size,       \* self.voxel_size (<<>> for None)
    context,          \* self.context (<<>> for None)
    skip,             \* self.skip
    coords,           \* self.coords: key -> coordinate grid
    spec,             \* self.spec[self.segmentation], and the upstream arrays' channel axes
    provided,         \* the keys the node has declared with self.provides
    request,          \* the request of the current call: key -> Roi
    upstream_request, \* the request prepare has rewritten for upstream
    batch,            \* the batch of the current call: key -> Array
    accumulated,      \* the local descriptors of __get_descriptors at line 209
    error,            \* the exception the last operation raised, or "none"
    pc,               \* where the node is in its life cycle
    agg               \* a call of __aggregate in sphere mode, examined on its own

vars == <<mode, sigma, downsample, mask, voxel_size, context, skip, coords, spec,
          provided, request, upstream_request, batch, accumulated, error, pc, agg>>
fields == <<mode, sigma, downsample, mask, spec>>

\* ----------------------------------------------------------------- inputs
\* the sigma argument of __init__: a float, or a sequence of floats
Scalar(x) == [scalar |-> TRUE, v |-> <<x>>]
Tuple(t) == [scalar |-> FALSE, v |-> t]
\* lines 54-57
SigmaTuple(arg) == IF arg.scalar THEN <<arg.v[1], arg.v[1], arg.v[1]>> ELSE arg.v

\* the nodes of the model: the arguments of __init__, and the voxel size and the
\* number of channel axes of the upstream segmentation. The context (sigma, or 3*sigma) is a multiple of the
\* voxel size, and 1/sigma^2 in voxels is an integer in gaussian mode.
NodeConfigs ==
    { [mode |-> "gaussian", sigma |-> Scalar(1), voxel_size |-> <<3, 3, 3>>, mask |-> MASK, channels |-> 0],
      [mode |-> "gaussian", sigma |-> Scalar(1), voxel_size |-> <<3, 3, 3>>, mask |-> NONE, channels |-> 0],
      [mode |-> "sphere", sigma |-> Scalar(1), voxel_size |-> <<1, 1, 1>>, mask |-> MASK, channels |-> 0],
      [mode |-> "sphere", sigma |-> Tuple(<<2, 2, 2>>), voxel_size |-> <<1, 1, 1>>, mask |-> MASK, channels |-> 0],
      [mode |-> "sphere", sigma |-> Tuple(<<2, 1, 1>>), voxel_size |-> <<2, 1, 1>>, mask |-> MASK, channels |-> 0],
      [mode |-> "sphere", sigma |-> Tuple(<<2, 2, 2>>), voxel_size |-> <<2, 2, 1>>, mask |-> MASK, channels |-> 0],
      [mode |-> "sphere", sigma |-> Tuple(<<2, 1, 1>>), voxel_size |-> <<1, 1, 1>>, mask |-> MASK, channels |-> 0],
      [mode |-> "cube", sigma |-> Scalar(1), voxel_size |-> <<1, 1, 1>>, mask |-> MASK, channels |-> 0],
      [mode |-> "gaussian", sigma |-> Tuple(<<1, 1>>), voxel_size |-> <<3, 3>>, mask |-> MASK, channels |-> 0],
      [mode |-> "gaussian", sigma |-> Tuple(<<1, 1>>), voxel_size |-> <<3, 3>>, mask |-> MASK, channels |-> 1],
      [mode |-> "gaussian", sigma |-> Scalar(1), voxel_size |-> <<3, 3, 3>>, mask |-> MASK, channels |-> 1] }

\* the shapes, in voxels, of the descriptor ROIs requested
DescShapes(dims) ==
    IF dims = 3 THEN {<<2, 2, 2>>, <<1, 1, 2>>} ELSE {<<2, 2>>, <<1, 2>>}

\* the sets of keys requested
KeySets(m) ==
    {{SEG, DESC}, {SEG}, {DESC}}
        \cup (IF m # NONE THEN {{SEG, DESC, MASK}, {SEG, MASK}} ELSE {})

\* the requests of the model: every array over the same ROI, two voxels from
\* the origin
Requests(vs, m) ==
    { [k \in keys |-> [offset |-> VScale(vs, 2), shape |-> VMul(shape, vs)]] :
        keys \in KeySets(m), shape \in DescShapes(Len(vs)) }

\* the segmentations of the model, by index: uniform, split in two halves
\* along the last axis, or a checkerboard, of the labels a and a+1 (cyclic)
SegKinds == {"uniform", "split", "checker"}
RECURSIVE SeqSum(_)
SeqSum(q) == IF q = <<>> THEN 0 ELSE Head(q) + SeqSum(Tail(q))
SegData(kind, a, shape) ==
    LET b == (a + 1) % (MaxLabel + 1)
        n == Len(shape)
    IN [v \in Box(shape) |->
            CASE kind = "uniform" -> a
              [] kind = "split" -> IF v[n] < shape[n] \div 2 THEN a ELSE b
              [] OTHER -> IF SeqSum(v) % 2 = 0 THEN a ELSE b]

\* -------------------------------------------------------------------- Init
\* the node after __init__
Init ==
    /\ \E cfg \in NodeConfigs, df \in 1..MaxDownsample :
        /\ mode = cfg.mode
        /\ sigma = SigmaTuple(cfg.sigma)
        /\ downsample = df
        /\ mask = cfg.mask
        /\ spec = [voxel_size |-> cfg.voxel_size, channels |-> cfg.channels]
    /\ voxel_size = <<>>
    /\ context = <<>>
    /\ skip = FALSE
    /\ coords = <<>>
    /\ provided = {}
    /\ request = <<>>
    /\ upstream_request = <<>>
    /\ batch = <<>>
    /\ accumulated = <<>>
    /\ error = "none"
    /\ pc = "constructed"
    /\ agg = [pc |-> "idle"]

\* ------------------------------------------------------------------- setup
\* self.context of lines 75-78
Context(m, sig) == IF m = "gaussian" THEN VScale(sig, 3) ELSE sig
\* the exception of line 80: the name mode is not defined in setup
UnknownModeError == "NameError"

Setup ==
    /\ pc = "constructed"
    /\ voxel_size' = spec.voxel_size
    /\ provided' = {DESC} \cup (IF mask # NONE THEN {mask} ELSE {})
    /\ IF mode \in {"gaussian", "sphere"}
       THEN /\ context' = Context(mode, sigma)
            /\ error' = "none"
            /\ pc' = "ready"
       ELSE /\ context' = context
            /\ error' = UnknownModeError
            /\ pc' = "setup failed"
    /\ UNCHANGED <<fields, agg, skip, coords, request, upstream_request, batch, accumulated>>

\* ----------------------------------------------------------------- prepare
Without(f, k) == [x \in DOMAIN f \ {k} |-> f[x]]
\* lines 84-93: the upstream request when the descriptor is requested
GrownRequest(req, ctx) ==
    LET context_roi == RoiGrow(req[DESC], ctx, ctx)
        grown_roi == RoiUnion(req[SEG], context_roi)
    IN Without([k \in DOMAIN req |-> IF k = SEG THEN grown_roi ELSE req[k]], DESC)
\* lines 100-101
WithoutMask(req, m) == IF m # NONE /\ m \in DOMAIN req THEN Without(req, m) ELSE req

Prepare ==
    /\ pc \in {"ready", "done"}
    /\ \E req \in Requests(voxel_size, mask) :
        /\ request' = req
        /\ IF DESC \in DOMAIN req
           THEN IF SEG \in DOMAIN req
                THEN /\ upstream_request' = WithoutMask(GrownRequest(req, context), mask)
                     /\ skip' = FALSE
                     /\ error' = "none"
                     /\ pc' = "prepared"
                ELSE \* line 90: request[self.segmentation]
                     /\ upstream_request' = req
                     /\ skip' = skip
                     /\ error' = "KeyError"
                     /\ pc' = "raised"
           ELSE /\ upstream_request' = WithoutMask(req, mask)
                /\ skip' = TRUE
                /\ error' = "none"
                /\ pc' = "prepared"
    /\ batch' = <<>>
    /\ accumulated' = <<>>
    /\ UNCHANGED <<fields, agg, voxel_size, context, coords, provided>>

\* ---------------------------------------------------------------- upstream
\* the upstream provider answers the request with the segmentation over the
\* requested ROI
RequestBatch ==
    /\ pc = "prepared"
    /\ \E kind \in SegKinds, a \in Labels :
        /\ batch' =
            [k \in DOMAIN upstream_request |->
                [roi |-> upstream_request[k],
                 data |-> SegData(kind, a, VDiv(upstream_request[k].shape, spec.voxel_size)),
                 channels |-> spec.channels]]
    /\ pc' = "provided"
    /\ UNCHANGED <<fields, agg, voxel_size, context, skip, coords, provided, request,
                   upstream_request, accumulated, error>>

\* ----------------------------------------------------------------- process
\* np.array([channel_mask]*descriptor.shape[0]) of lines 133-135
MaskData(seg, roi, vs) ==
    LET cropped == Crop(seg, roi, vs)
    IN [i \in DOMAIN cropped.data |->
            [c \in 1..NumChannels |-> IF cropped.data[i] # 0 THEN Scale ELSE 0]]

\* the batch after lines 126-143
ProcessedBatch(b, req, m, vs, descriptors) ==
    LET seg == b[SEG]
        with_mask == m # NONE /\ m \in DOMAIN req
        keys == DOMAIN b \cup {DESC} \cup (IF with_mask THEN {m} ELSE {})
    IN [k \in keys |->
            IF k = DESC
            THEN [roi |-> req[DESC], data |-> descriptors, channels |-> 0]
            ELSE IF k = SEG THEN Crop(seg, req[SEG], vs)
            ELSE IF with_mask /\ k = m
            THEN [roi |-> req[DESC], data |-> MaskData(seg, req[DESC], vs),
                  channels |-> seg.channels]
            ELSE b[k]]

Process ==
    /\ pc = "provided"
    /\ IF skip
       THEN /\ pc' = "done"
            /\ UNCHANGED <<coords, batch, accumulated, error>>
       ELSE IF Len(voxel_size) # 3
       THEN /\ pc' = "raised"
            /\ error' = "AssertionError: only works on 3D arrays"
            /\ UNCHANGED <<coords, batch, accumulated>>
       ELSE \E seg \in {batch[SEG]} :
            \E voxel_roi_in_seg \in
                    {RoiDivV(RoiShift(RoiIntersect(seg.roi, request[DESC]),
                                      seg.roi.offset),
                             voxel_size)} :
            \E r \in {GetDescriptors(seg,
                                     [offset |-> AsTuple(voxel_roi_in_seg.offset),
                                      shape |-> AsTuple(voxel_roi_in_seg.shape)],
                                     voxel_size, sigma, mode, downsample, coords)} :
            LET \* line 134
                mask_ok ==
                    (mask # NONE /\ mask \in DOMAIN request) =>
                        VDiv(request[DESC].shape, voxel_size) = voxel_roi_in_seg.shape
            IN /\ coords' = r.coords
               /\ error' = IF r.error = "none" /\ ~mask_ok
                            THEN "AssertionError at line 134" ELSE r.error
               /\ accumulated' = r.accumulated
               /\ IF r.error # "none" \/ ~mask_ok
                  THEN /\ pc' = "raised"
                       /\ batch' = batch
                  ELSE /\ pc' = "done"
                       /\ batch' = ProcessedBatch(batch, request, mask, voxel_size,
                                                  NormalizeAll(accumulated', r.foreground,
                                                               mode, sigma))
    /\ UNCHANGED <<fields, agg, voxel_size, context, skip, provided, request,
                   upstream_request>>

Next == Setup \/ Prepare \/ RequestBatch \/ Process

Spec == Init /\ [][Next]_vars

\* ------------------------------------------- __aggregate in sphere mode alone
\* the arrays a call is examined on: all ones, or a single one at any index
AggArrays(shape) ==
    {[v \in Box(shape) |-> Scale]}
        \cup {[v \in Box(shape) |-> IF v = p THEN Scale ELSE 0] : p \in Box(shape)}

\* a node in sphere mode, and a call __aggregate(array, sigma, 'sphere') with
\* an isotropic integer sigma, on an array that holds the whole kernel
InitAggregate ==
    /\ mode = "sphere"
    /\ sigma = <<1, 1, 1>>
    /\ downsample = 1
    /\ mask = NONE
    /\ spec = [voxel_size |-> <<1, 1, 1>>, channels |-> 0]
    /\ voxel_size = <<1, 1, 1>>
    /\ context = <<1, 1, 1>>
    /\ skip = FALSE
    /\ coords = <<>>
    /\ provided = {DESC}
    /\ request = <<>>
    /\ upstream_request = <<>>
    /\ batch = <<>>
    /\ accumulated = <<>>
    /\ error = "none"
    /\ pc = "ready"
    /\ \E r \in 1..MaxRadius :
        \E a \in AggArrays(<<2 * r + 1, 2 * r + 1, 2 * r + 1>>) :
            agg = [pc |-> "called", radius |-> r, array |-> a,
                   shape |-> <<2 * r + 1, 2 * r + 1, 2 * r + 1>>]

\* lines 321-333 with roi = None
AggregateSphere ==
    /\ agg.pc = "called"
    /\ LET s == [d \in 1..3 |-> Ratio(agg.radius, 1)]
       IN agg' = [pc |-> "returned", radius |-> agg.radius, array |-> agg.array,
                  shape |-> agg.shape,
                  sphere |-> MakeSphere(s[1]),
                  out |-> [v \in Box(agg.shape) |->
                            AggregateAt(agg.array, agg.shape, s,
                                        "sphere", v)]]
    /\ UNCHANGED <<fields, voxel_size, context, skip, coords, provided, request,
                   upstream_request, batch, accumulated, error, pc>>

\* a finished call may be followed by another
AggregateAgain ==
    /\ agg.pc = "returned"
    /\ \E r \in 1..MaxRadius :
        \E a \in AggArrays(<<2 * r + 1, 2 * r + 1, 2 * r + 1>>) :
            agg' = [pc |-> "called", radius |-> r, array |-> a,
                    shape |-> <<2 * r + 1, 2 * r + 1, 2 * r + 1>>]
    /\ UNCHANGED <<fields, voxel_size, context, skip, coords, provided, request,
                   upstream_request, batch, accumulated, error, pc>>

NextAggregate == AggregateSphere \/ AggregateAgain

SpecAggregate == InitAggregate /\ [][NextAggregate]_vars

\* ================================================================== claims
\* a call of process that got as far as __get_descriptors
DescriptorReached ==
    /\ pc \in {"done", "raised"}
    /\ batch # <<>>
    /\ ~skip
    /\ Len(voxel_size) = 3
\* the label of the segmentation at index i of the requested descriptor ROI
DescLabel(i) == Crop(batch[SEG], request[DESC], voxel_size).data[i]
\* the indices of the requested descriptor ROI
DescBox == Box(VDiv(request[DESC].shape, voxel_size))
OffsetAndPearson == {1, 2, 3, 7, 8, 9}
VarianceAndCount == {4, 5, 6, 10}

\* C1: in every descriptor a call returns, a voxel whose label is 0 has its
\* offset channels (0, 1, 2) and Pearson channels (6, 7, 8) equal to 0, and
\* the variance channels (3, 4, 5) and the count channel (9) of every voxel
\* are the clipped accumulated values: the background reset does not touch them.
C1_BackgroundReset ==
    (pc = "done" /\ DESC \in DOMAIN batch) =>
        \A i \in DOMAIN batch[DESC].data :
            /\ DescLabel(i) = 0 =>
                \A c \in OffsetAndPearson : batch[DESC].data[i][c] = 0
            /\ \A c \in VarianceAndCount :
                batch[DESC].data[i][c] = Min(Max(accumulated[i][c], 0), Scale)
\* a returned descriptor with a background voxel beside a labelled voxel whose
\* variance and count are not 0
C1_Witness ==
    /\ pc = "done" /\ DESC \in DOMAIN batch
    /\ \E i, j \in DOMAIN batch[DESC].data :
        /\ DescLabel(i) = 0
        /\ DescLabel(j) # 0
        /\ batch[DESC].data[j][4] > 0
        /\ batch[DESC].data[j][10] > 0

\* C2: every value of every one of the 10 channels of a returned descriptor
\* lies in [0, 1].
C2_Range ==
    (pc = "done" /\ DESC \in DOMAIN batch) =>
        \A i \in DOMAIN batch[DESC].data : \A c \in 1..NumChannels :
            0 <= batch[DESC].data[i][c] /\ batch[DESC].data[i][c] <= Scale
\* a returned descriptor where the clipping acted: an accumulated count above
\* 1 that is returned as 1, beside an offset strictly between 0 and 1
C2_Witness ==
    /\ pc = "done" /\ DESC \in DOMAIN batch
    /\ \E i \in DOMAIN accumulated :
        /\ accumulated[i][10] > Scale
        /\ batch[DESC].data[i][10] = Scale
        /\ \E c \in {1, 2, 3} :
            0 < batch[DESC].data[i][c] /\ batch[DESC].data[i][c] < Scale

\* the physical sigma has equal components
PhysicalSigmaEqual == \A d \in 1..Len(sigma) : sigma[d] = sigma[1]
\* sigma / (voxel_size * downsample) has equal components
VoxelSigmaEqual ==
    \A d \in 1..Len(sigma) :
        sigma[d] * (voxel_size[1] * downsample) = sigma[1] * (voxel_size[d] * downsample)
\* the requested descriptor ROI holds a label other than 0
RegionHasLabel == \E i \in DescBox : DescLabel(i) # 0
\* on every axis the strided mask is as long as the coordinate grid, or one of
\* the two has length 1
GridFitsMask ==
    \A a \in 1..3 :
        LET n == upstream_request[SEG].shape[a] \div voxel_size[a]
            floor == n \div downsample
            ceil == (n + downsample - 1) \div downsample
        IN floor = ceil \/ floor = 1 \/ ceil = 1
SphereComputation == mode = "sphere" /\ DescriptorReached /\ spec.channels = 0
IsotropyError == error = "AssertionError: only isotropic sigma is allowed"

\* C3, as stated: in sphere mode a descriptor computation raises the
\* validation error whenever the physical sigma has unequal components and
\* never when they are equal, whatever the voxel size, the downsample factor
\* and the segmentation.
C3_Original == SphereComputation => (IsotropyError <=> ~PhysicalSigmaEqual)
\* C3, amended: in sphere mode a descriptor computation on a 3-dimensional
\* segmentation raises the validation error exactly when the requested region
\* holds a non-zero label, the strided mask fits the coordinate grid, and
\* sigma divided by the downsampled voxel size has unequal components.
C3_VoxelIsotropy ==
    SphereComputation =>
        (IsotropyError <=> (RegionHasLabel /\ GridFitsMask /\ ~VoxelSigmaEqual))
\* the validation error raised for a sigma whose physical components are equal
C3_Witness == SphereComputation /\ IsotropyError /\ PhysicalSigmaEqual

\* C4: with a mode other than 'gaussian' and 'sphere' construction does not
\* fail, setup fails with the RuntimeError announcing the unknown mode, and no
\* request is prepared or processed.
C4_UnknownMode ==
    mode \notin {"gaussian", "sphere"} =>
        \/ pc = "constructed" /\ error = "none"
        \/ pc = "setup failed" /\ error = "RuntimeError"

\* the number of axes of the segmentation array
SegRank == spec.channels + Len(spec.voxel_size)
\* C5: processing a request for the descriptor raises the unsupported-input
\* error whenever the segmentation array is not 3-dimensional, whatever the
\* number of components of the voxel size, before any descriptor value is
\* computed.
C5_RankRejected ==
    (pc \in {"done", "raised"} /\ batch # <<>> /\ DESC \in DOMAIN request
        /\ SegRank # 3) =>
        /\ pc = "raised"
        /\ error = "AssertionError: only works on 3D arrays"
        /\ accumulated = <<>>

\* the coordinate grid of a key, computed afresh: channel d at index (z, y, x)
\* holds index_d * voxel_size_d
FreshGrid(key) ==
    [v \in Box(<<key[1][1], key[1][2], key[1][3]>>) |->
        [d \in 1..3 |-> v[d] * key[2][d] * Scale]]
\* C6: every entry of the coordinate-grid cache equals the grid freshly
\* computed for its key, and no step modifies or removes an entry.
C6_Cache ==
    /\ [](\A k \in DOMAIN coords : coords[k] = FreshGrid(k))
    /\ [][\A k \in DOMAIN coords : k \in DOMAIN coords' /\ coords'[k] = coords[k]]_vars
\* a computation that found its key in a cache of two entries
C6_Witness ==
    /\ pc = "done" /\ ~skip
    /\ Cardinality(DOMAIN coords) = 2
    /\ \E k \in DOMAIN coords : \E v \in DOMAIN coords[k] : coords[k][v][1] > 0

MaskRequested == mask # NONE /\ mask \in DOMAIN request
\* C7: a processing call that raises leaves the batch as it was received (the
\* segmentation over the ROI requested upstream, no descriptor, no mask); one
\* that does not raise leaves the descriptor over its requested ROI, the mask
\* if it was requested, and the segmentation cropped to its requested ROI.
C7_NoPartialResult ==
    /\ (pc = "raised" /\ batch # <<>>) =>
        /\ DOMAIN batch = {SEG}
        /\ batch[SEG].roi = upstream_request[SEG]
    /\ pc = "done" =>
        /\ DESC \in DOMAIN request =>
            DESC \in DOMAIN batch /\ batch[DESC].roi = request[DESC]
        /\ MaskRequested => mask \in DOMAIN batch
        /\ batch[SEG].roi = request[SEG]

\* the sub-sampled descriptor of a label at any index v of the sub-sampled
\* segmentation arr
CoarseDescriptorAt(arr, label, v) ==
    LET sub_voxel_size == VScale(voxel_size, downsample)
        shape == VDivS(ArrayVoxelShape(arr, voxel_size), downsample)
    IN SubDescriptorAt(arr.data, label, downsample,
                       MeshGrid(shape, sub_voxel_size), shape, shape,
                       [d \in 1..3 |-> Ratio(sigma[d], sub_voxel_size[d])],
                       mode, sigma, v)
\* C8: for every downsample factor and every requested ROI the upsampled array
\* has the shape of the ROI, and the descriptor accumulated at the fine voxel
\* with absolute index (z, y, x) is the coarse descriptor of its label at
\* (z div df, y div df, x div df).
C8_Upsampling ==
    [][(pc = "provided" /\ ~skip /\ Len(voxel_size) = 3 /\ spec.channels = 0) =>
        /\ error' # "ValueError at line 208"
        /\ pc' = "done" =>
            LET off == VDiv(VSub(request[DESC].offset, batch[SEG].roi.offset),
                            voxel_size)
            IN \A i \in DOMAIN accumulated' :
                LET abs == <<off[1] + i[1], off[2] + i[2], off[3] + i[3]>>
                    label == batch[SEG].data[abs]
                IN label # 0 =>
                    accumulated'[i] =
                        CoarseDescriptorAt(batch[SEG], label,
                                           <<abs[1] \div downsample,
                                             abs[2] \div downsample,
                                             abs[3] \div downsample>>)
      ]_vars

RECURSIVE SetSum(_, _)
SetSum(F, S) ==
    IF S = {} THEN 0
    ELSE LET x == CHOOSE y \in S : TRUE IN F[x] + SetSum(F, S \ {x})
Dist2(u, v) ==
    (u[1] - v[1]) * (u[1] - v[1]) + (u[2] - v[2]) * (u[2] - v[2])
        + (u[3] - v[3]) * (u[3] - v[3])
\* C9: for an integer radius r the sphere kernel is defined on the offsets
\* -r..r of each axis and is 1 exactly at the offsets within distance r of the
\* centre, and the aggregated value at a voxel is the sum of the field over
\* all voxels within distance r of it.
C9_Ball ==
    agg.pc = "returned" =>
        LET r == agg.radius
            side == (-r)..r
            ball == {d \in side \X side \X side : Dist2(d, <<0, 0, 0>>) <= r * r}
        IN /\ {<<k[1] - r, k[2] - r, k[3] - r>> :
                    k \in {x \in DOMAIN agg.sphere : agg.sphere[x] = 1}} = ball
           /\ \A v \in Box(agg.shape) :
                agg.out[v] =
                    SetSum(agg.array,
                           {u \in Box(agg.shape) : Dist2(u, v) <= r * r})

\* C10: after prepare and process, every key the node provides that the
\* request contains is in the batch; a request with the mask but not the
\* descriptor gets the mask (segmentation != 0) on 10 channels, and a request
\* with neither leaves the batch as it was received.
C10_ProvidedKeys ==
    (pc = "done" /\ mask # NONE) =>
        /\ \A k \in provided \cap DOMAIN request : k \in DOMAIN batch
        /\ (MaskRequested /\ DESC \notin DOMAIN request) =>
            /\ mask \in DOMAIN batch
            /\ batch[mask].data = MaskData(batch[SEG], request[mask], voxel_size)
        /\ (provided \cap DOMAIN request = {}) => DOMAIN batch = {SEG}

====
